---- MODULE Spec2Model ----
(***************************************************************************)
(* Model of the generation pipeline of Creatora-FastApi-Post-Generation:   *)
(* POST /generate-post (main.py) -> call_llm_with_retry ->                 *)
(* generate_post_with_image -> call_llm -> call_gemini ->                  *)
(* validate_and_fix_json, then generate_image_with_imagen ->               *)
(* generate_image_with_stability -> create_placeholder_response.           *)
(*                                                                         *)
(* External collaborators (the Gemini SDK, json / json_repair, the         *)
(* Stability HTTP API, PIL) are modelled by their outcome, drawn           *)
(* nondeterministically at the step that calls them.                       *)
(***************************************************************************)
EXTENDS Integers, Sequences, FiniteSets, TLC

\* ------------------------------------------------------------------ bounds
MaxRetriesBound == 2
MaxRequests == 2
NumPrompts == 3
MaxStrLen == 3
MaxPosts == 6
LongCaptionLen == 201

\* ------------------------------------------------------- program constants
DefaultMaxRetries == 2
GenericWait == 2
BackoffBase == 2
HashSpace == 2

\* ------------------------------------------------------------ value spaces
Prompts == 1..NumPrompts

\* the failures the Gemini SDK call itself can raise (model.generate_content)
ProviderErrors == {"ProviderUnavailable", "QuotaExceeded", "ProviderRejected"}

\* a required sub-object of the payload: present and well-shaped, absent,
\* or present with a field of the wrong shape
FieldStatus == {"ok", "missing", "badshape"}

\* what a JSON parse can yield; kind "fail" stands for "no value" (the parse
\* or the repair raised)
JsonObj(t, i, v) == [kind |-> "obj", empty |-> (t = "missing" /\ i = "missing" /\ v = "missing"),
                     t |-> t, i |-> i, v |-> v]
JsonScalar(k, e) == [kind |-> k, empty |-> e, t |-> "missing", i |-> "missing", v |-> "missing"]
NoValue == JsonScalar("fail", TRUE)
JsonValues ==
    {JsonObj(t, i, v) : t \in FieldStatus, i \in FieldStatus, v \in FieldStatus}
    \cup {JsonScalar(k, e) : k \in {"list", "str", "num"}, e \in BOOLEAN}
    \cup {JsonScalar("null", TRUE)}

\* a raw payload, described by what json.loads and repair_json make of it
RawPayloads ==
    {[strict |-> s, repair |-> s] : s \in JsonValues}
    \cup {[strict |-> NoValue, repair |-> r] : r \in JsonValues \cup {NoValue}}

\* the payload carries an image sub-object, hence an image.imagePrompt
HasImagePrompt(raw) == raw.strict.i = "ok" \/ raw.repair.i = "ok"

\* one invocation of the text provider: it raises, or returns a raw payload
\* whose image.imagePrompt (when there is one) is prompt
GenOutcomes ==
    {[raises |-> e, raw |-> [strict |-> NoValue, repair |-> NoValue], prompt |-> 0] : e \in ProviderErrors}
    \cup {[raises |-> "none", raw |-> r, prompt |-> 0] : r \in {x \in RawPayloads : ~HasImagePrompt(x)}}
    \cup {[raises |-> "none", raw |-> r, prompt |-> p] :
              r \in {x \in RawPayloads : HasImagePrompt(x)}, p \in Prompts}

\* ------------------------------------------------------ json_fixer.py

\* Python truthiness of a parsed value (`if parsed:`)
Truthy(val) == val.kind # "fail" /\ ~val.empty

ValidateAndFixJson(raw) ==
    IF raw.strict.kind # "fail"
    THEN [ok |-> TRUE, val |-> raw.strict]
    ELSE IF raw.repair.kind # "fail" /\ Truthy(raw.repair)
         THEN [ok |-> TRUE, val |-> raw.repair]
         ELSE [ok |-> FALSE, val |-> NoValue]

\* ------------------------------------------------------ schemas.py

SchemaValid_NoVideo(val) ==
    /\ val.kind = "obj"
    /\ val.t = "ok"
    /\ val.i = "ok"

\* GeneratePostResponseLLM(**validated_json): a non-mapping cannot be
\* unpacked, a mapping must carry text, image and video, each well-shaped
SchemaValid(val) ==
    /\ val.kind = "obj"
    /\ val.t = "ok"
    /\ val.i = "ok"
    /\ val.v = "ok"

\* ------------------------------------------------------ llm_service.py

NoResponse == [text |-> "none", image |-> "none", video |-> "none",
               imagePrompt |-> 0, imageUrl |-> "null"]

\* GeneratePostResponse(text=..., video=..., image=ImagePost(..., imageUrl=None))
BuildResponse(val, prompt) ==
    [text |-> val.t, image |-> val.i, video |-> val.v,
     imagePrompt |-> prompt, imageUrl |-> "null"]

CallGemini(gen) ==
    IF gen.raises # "none"
    THEN [ok |-> FALSE, err |-> gen.raises, data |-> NoResponse]
    ELSE LET fixed == ValidateAndFixJson(gen.raw) IN
         IF ~fixed.ok
         THEN [ok |-> FALSE, err |-> "UnrepairableOutput", data |-> NoResponse]
         ELSE IF ~SchemaValid(fixed.val)
              THEN [ok |-> FALSE, err |-> "SchemaMismatch", data |-> NoResponse]
              ELSE [ok |-> TRUE, err |-> "none", data |-> BuildResponse(fixed.val, gen.prompt)]

\* call_llm: the except clause prints the error and falls off the end of
\* the function, so the caller receives None
CallLlm(gen) ==
    LET r == CallGemini(gen) IN
    IF r.ok THEN r.data ELSE NoResponse

\* the substrings call_llm_with_retry looks for in str(e).lower():
\* "429", "quota", "rate limit"
MentionsRateLimit(err) == err \in {"QuotaExceeded", "PlaceholderQuotaError"}

\* `attempt < max_retries - 1`
MoreAttempts(att, m) == att < m - 1

\* the time slept by the except clause of call_llm_with_retry (0: no sleep)
BackoffFor(err, att, m) ==
    IF MentionsRateLimit(err) /\ MoreAttempts(att, m)
    THEN BackoffBase ^ att
    ELSE IF MoreAttempts(att, m) THEN GenericWait ELSE 0

Sleeps_NoContinue(err, att, m) ==
    (IF MentionsRateLimit(err) /\ MoreAttempts(att, m) THEN <<BackoffBase ^ att>> ELSE <<>>)
    \o (IF MoreAttempts(att, m) THEN <<GenericWait>> ELSE <<>>)

\* the time.sleep calls of one pass through the except clause, in order:
\* the rate-limit branch sleeps and leaves with `continue`, otherwise the
\* generic sleep runs when another attempt follows
Sleeps(err, att, m) ==
    IF MentionsRateLimit(err) /\ MoreAttempts(att, m)
    THEN <<BackoffBase ^ att>>
    ELSE IF MoreAttempts(att, m) THEN <<GenericWait>> ELSE <<>>

WrapExhausted_Reraise(err) ==
    [cls |-> IF err = "InvalidResponseStructure" THEN "ValueError" ELSE "OSError",
     carries |-> err]

\* `raise RuntimeError(f"All retry attempts failed. Last error: {last_error}")`
WrapExhausted(err) == [cls |-> "RuntimeError", carries |-> err]

InvalidStructure_Never(data) == FALSE

\* `not response_data or not hasattr(response_data, 'image')`
InvalidStructure(data) == data = NoResponse

InRange_OffByOne(att, m) == att <= m

\* `for attempt in range(max_retries)`: is there an iteration with index att
InRange(att, m) == att < m

\* ------------------------------------------------------ image_generator.py

\* hashlib.md5(prompt.encode()).hexdigest()[:10]: a truncated digest, so
\* distinct prompts can share a key
PromptHash(p) == p % HashSpace
Keys == 0..(HashSpace - 1)

SynthOutcomes == {"ok", "error", "quota_error"}

\* create_placeholder_image: PIL draws and saves placeholder.png; any
\* failure (import, font metrics, disk) propagates to the caller
CreatePlaceholderImage(synth) ==
    IF synth = "ok"
    THEN [raised |-> "none", exists |-> TRUE, url |-> "placeholder"]
    ELSE [raised |-> IF synth = "quota_error" THEN "PlaceholderQuotaError" ELSE "PlaceholderError",
          exists |-> FALSE, url |-> "null"]

CreatePlaceholderResponse(exists, synth) ==
    IF ~exists
    THEN CreatePlaceholderImage(synth)
    ELSE [raised |-> "none", exists |-> TRUE, url |-> "placeholder"]

StabilityResponses == {"200_image", "200_nonimage", "non200", "timeout", "exception"}

\* `"placeholder" not in result.get("imageUrl", "").lower()`; a generated
\* reference is f"{base_url}/images/image_<hex>.png"
ContainsPlaceholder(url, baseWord) ==
    url = "placeholder" \/ (url = "generated" /\ baseWord)

\* ------------------------------------------------------ text values

\* a text is a sequence of characters; these are the ones the code treats
\* specially, next to an ordinary letter
Chars == {"a", " ", "\n", "\r", "\""}

Min(a, b) == IF a < b THEN a ELSE b

RECURSIVE TextsOfLen(_)
TextsOfLen(n) ==
    IF n = 0 THEN {<<>>}
    ELSE {Append(t, c) : t \in TextsOfLen(n - 1), c \in Chars}

Texts == UNION {TextsOfLen(n) : n \in 0..MaxStrLen}

\* n letters
Pad(n) == [i \in 1..n |-> "a"]

\* str.replace(old, new) for one-character old and new
Replace(text, old, new) ==
    [i \in 1..Len(text) |-> IF text[i] = old THEN new ELSE text[i]]

\* the characters str.strip() removes
IsSpace(c) == c \in {" ", "\n", "\r", "\t"}

RECURSIVE LStrip(_)
LStrip(text) ==
    IF text = <<>> THEN <<>>
    ELSE IF IsSpace(Head(text)) THEN LStrip(Tail(text)) ELSE text

RECURSIVE RStrip(_)
RStrip(text) ==
    IF text = <<>> THEN <<>>
    ELSE IF IsSpace(text[Len(text)]) THEN RStrip(SubSeq(text, 1, Len(text) - 1)) ELSE text

\* str.strip()
Strip(text) == RStrip(LStrip(text))

Take_Last(text, n) == SubSeq(text, Len(text) - Min(n, Len(text)) + 1, Len(text))

\* the slice s[:n]
Take(text, n) == SubSeq(text, 1, Min(n, Len(text)))

\* ------------------------------------------------------ prompt_builder.py

ContentLimit == 150
FewShotLimit == 5
PhraseLimit == 5

CleanStr_NoStrip(text) ==
    IF text = <<>> THEN <<>>
    ELSE Replace(Replace(text, "\n", " "), "\"", "'")

\* clean_str
CleanStr(text) ==
    IF text = <<>> THEN <<>>
    ELSE Strip(Replace(Replace(text, "\n", " "), "\"", "'"))

\* a PastPost; cta "None" stands for callToAction = None
Post(content, tone, cta) == [content |-> content, tone |-> tone, cta |-> cta]

\* the BrandProfile fields build_prompt reads
Brand(text, phrases) ==
    [niche |-> text, audience |-> text, tone |-> text, styleSummary |-> text,
     emotionalTone |-> text, commonPhrases |-> phrases]

\* one entry of past_examples: f"{i}. Tone: {post_tone} | CTA: {cta}\n   Content: {content}...\n\n"
Example(i, post) ==
    [num |-> i,
     tone |-> CleanStr(post.tone),
     cta |-> IF post.cta = "None" \/ post.cta = <<>> THEN <<"N", "o", "n", "e">>
             ELSE CleanStr(post.cta),
     content |-> CleanStr(Take(post.content, ContentLimit))]

\* build_prompt: the values it embeds in the template, in template order
BuildPrompt(brand, posts) ==
    [niche |-> CleanStr(brand.niche),
     audience |-> CleanStr(brand.audience),
     tone |-> CleanStr(brand.tone),
     style |-> CleanStr(brand.styleSummary),
     emotional |-> CleanStr(brand.emotionalTone),
     phrases |-> [j \in 1..Len(Take(brand.commonPhrases, PhraseLimit)) |->
                     CleanStr(Take(brand.commonPhrases, PhraseLimit)[j])],
     examples |-> [i \in 1..Len(Take(posts, FewShotLimit)) |->
                     Example(i, Take(posts, FewShotLimit)[i])]]

\* posts with unclean fields, used to fill the longer lists
PostSamples ==
    {Post(<<"a", "\n", "\"">>, <<" ", "a">>, "None"),
     Post(Pad(ContentLimit - 1) \o <<" ", "\"", "a">>, <<"\"">>, <<"a", "\n">>)}

RECURSIVE PostListsOfLen(_)
PostListsOfLen(n) ==
    IF n = 0 THEN {<<>>}
    ELSE {Append(l, q) : l \in PostListsOfLen(n - 1), q \in PostSamples}

BuildInputs ==
    {[brand |-> Brand(t, <<t, t>>), posts |-> l] :
        t \in {<<>>, <<" ", "\"", "\n">>},
        l \in UNION {PostListsOfLen(n) : n \in 0..MaxPosts}}
    \cup UNION {{[brand |-> Brand(t, [j \in 1..(PhraseLimit + 1) |-> t]),
                  posts |-> <<Post(c, t, t)>>] :
                     c \in {Pad(ContentLimit - 2) \o t, t}} : t \in Texts}

\* ------------------------------------------------------ image_generator.py

\* the template text around the caption in optimize_image_prompt
PromptHead == <<"Professional photography of ">>
PromptSep == <<":", " ">>
PromptTail == <<"\n", "\n", "Style: ... No text, no watermarks.">>

\* optimize_image_prompt
OptimizeImagePrompt(caption, niche) ==
    Strip(PromptHead \o niche \o PromptSep \o caption \o PromptTail)

\* the part of an optimized prompt that came from the caption
CaptionPortion(prompt, niche) ==
    SubSeq(prompt, Len(PromptHead) + Len(niche) + Len(PromptSep) + 1,
           Len(prompt) - Len(PromptTail))

Captions == Texts \cup {Pad(LongCaptionLen)}
Niches == {<<>>, <<"a">>, <<"a", " ", "a">>}

VARIABLES
    pc,                \* position of the request in the pipeline
    nreq,              \* requests started so far
    maxRetries,        \* max_retries of the running call_llm_with_retry
    attempt,           \* loop index of call_llm_with_retry
    lastError,         \* last_error
    exc,               \* the exception in flight to the except clause
    respData,          \* response_data of generate_post_with_image
    imageResult,       \* image_result
    raised,            \* the exception call_llm_with_retry raised
    result,            \* the value call_llm_with_retry returned
    httpStatus,        \* status of the HTTP response
    stabilityKey,      \* os.getenv("STABILITY_API_KEY") is set
    baseHasWord,       \* BASE_URL contains "placeholder"
    placeholderExists, \* generated_images/placeholder.png exists
    store,             \* generated_images/image_<key>.png, by key
    tried,             \* strategies the running image chain has invoked
    primaryResp,       \* what the primary provider answered in this attempt
    textCalls,         \* invocations of call_gemini in this request
    log,               \* history of the attempts of this request
    fn,                \* the pure function applied ("none": not yet)
    fnArg,             \* its argument
    fnRes              \* its result

vars == <<pc, nreq, maxRetries, attempt, lastError, exc, respData, imageResult,
          raised, result, httpStatus, stabilityKey, baseHasWord,
          placeholderExists, store, tried, primaryResp, textCalls, log,
          fn, fnArg, fnRes>>

fnVars == <<fn, fnArg, fnRes>>

envVars == <<stabilityKey, baseHasWord>>

Init ==
    /\ pc = "idle"
    /\ nreq = 0
    /\ maxRetries = DefaultMaxRetries
    /\ attempt = 0
    /\ lastError = "None"
    /\ exc = "None"
    /\ respData = NoResponse
    /\ imageResult = "null"
    /\ raised = [cls |-> "none", carries |-> "None"]
    /\ result = NoResponse
    /\ httpStatus = 0
    /\ stabilityKey \in BOOLEAN
    /\ baseHasWord \in BOOLEAN
    /\ placeholderExists \in BOOLEAN
    /\ store = [k \in Keys |-> "absent"]
    /\ tried = <<>>
    /\ primaryResp = "none"
    /\ textCalls = 0
    /\ log = <<>>
    /\ fn = "none"
    /\ fnArg = "none"
    /\ fnRes = "none"

\* main.generate_post enters call_llm_with_retry: last_error = None and the
\* loop starts (or is empty)
StartRequest(m) ==
    /\ pc \in {"idle", "responded"}
    /\ nreq < MaxRequests
    /\ nreq' = nreq + 1
    /\ maxRetries' = m
    /\ attempt' = 0
    /\ lastError' = "None"
    /\ exc' = "None"
    /\ respData' = NoResponse
    /\ imageResult' = "null"
    /\ raised' = [cls |-> "none", carries |-> "None"]
    /\ result' = NoResponse
    /\ httpStatus' = 0
    /\ tried' = <<>>
    /\ primaryResp' = "none"
    /\ textCalls' = 0
    /\ log' = <<>>
    /\ pc' = IF InRange(0, m) THEN "text" ELSE "exhausted"
    /\ UNCHANGED <<envVars, placeholderExists, store>>
    /\ UNCHANGED fnVars

\* main.generate_post, line 64: the body does not validate as
\* GeneratePostRequest, so the framework answers 422 and the handler body
\* never runs
RejectMalformed ==
    /\ pc \in {"idle", "responded"}
    /\ nreq < MaxRequests
    /\ nreq' = nreq + 1
    /\ attempt' = 0
    /\ lastError' = "None"
    /\ exc' = "None"
    /\ respData' = NoResponse
    /\ imageResult' = "null"
    /\ raised' = [cls |-> "none", carries |-> "None"]
    /\ result' = NoResponse
    /\ httpStatus' = 422
    /\ tried' = <<>>
    /\ primaryResp' = "none"
    /\ textCalls' = 0
    /\ log' = <<>>
    /\ pc' = "responded"
    /\ UNCHANGED <<maxRetries, envVars, placeholderExists, store, fnVars>>

\* generate_post_with_image, lines 76-79: call_llm, then the None check
TextStep(gen) ==
    /\ pc = "text"
    /\ textCalls' = textCalls + 1
    /\ LET g == CallGemini(gen)
           data == CallLlm(gen) IN
       /\ respData' = data
       /\ log' = Append(log, [text |-> IF g.ok THEN "ok" ELSE g.err,
                              cause |-> g.err,
                              image |-> "none", sleep |-> 0,
                              chains |-> 0, wrote |-> FALSE, naps |-> 0])
       /\ IF InvalidStructure(data)
          THEN /\ exc' = "InvalidResponseStructure"
               /\ pc' = "except"
          ELSE /\ exc' = "None"
               /\ pc' = "image"
    /\ tried' = <<>>
    /\ primaryResp' = "none"
    /\ imageResult' = "null"
    /\ UNCHANGED <<nreq, maxRetries, attempt, lastError, raised, result,
                   httpStatus, envVars, placeholderExists, store>>
    /\ UNCHANGED fnVars

SetLast(lg, fld, val) == [lg EXCEPT ![Len(lg)] = [@ EXCEPT ![fld] = val]]

\* the image chain raised err: the attempt fails with it
ImageRaised(lg, err) == SetLast(SetLast(lg, "image", "raised"), "cause", err)

\* generate_image_with_imagen, lines 171-182: the STABILITY_API_KEY test
ImagenEntry ==
    /\ pc = "image"
    /\ pc' = IF stabilityKey THEN "stability" ELSE "placeholder"
    /\ log' = SetLast(log, "chains", log[Len(log)].chains + 1)
    /\ UNCHANGED <<nreq, maxRetries, attempt, lastError, exc, respData,
                   imageResult, raised, result, httpStatus, envVars,
                   placeholderExists, store, tried, primaryResp, textCalls>>
    /\ UNCHANGED fnVars

\* generate_image_with_stability (called with the key set), then the
\* test of its result at generate_image_with_imagen line 185
StabilityStep(resp, s1, s2) ==
    /\ pc = "stability"
    /\ tried' = Append(tried, "primary")
    /\ primaryResp' = resp
    /\ IF resp \in {"200_image", "200_nonimage"}
       THEN \* status 200: the body is written under the hash key
            /\ store' = [store EXCEPT ![PromptHash(respData.imagePrompt)] =
                            IF resp = "200_image" THEN "png" ELSE "html"]
            /\ UNCHANGED placeholderExists
            /\ exc' = exc
            /\ IF ContainsPlaceholder("generated", baseHasWord)
               THEN /\ pc' = "placeholder"
                    /\ UNCHANGED imageResult
                    /\ log' = SetLast(log, "wrote", TRUE)
               ELSE /\ pc' = "assemble"
                    /\ imageResult' = "generated"
                    /\ log' = SetLast(SetLast(log, "wrote", TRUE), "image", "generated")
       ELSE LET r1 == CreatePlaceholderResponse(placeholderExists, s1)
                \* non-200: the call sits inside the try, so a failure of
                \* it reaches `except Exception`, which calls it again
                r == IF resp = "non200" /\ r1.raised # "none"
                     THEN CreatePlaceholderResponse(r1.exists, s2)
                     ELSE r1
            IN /\ UNCHANGED store
               /\ placeholderExists' = r.exists
               /\ IF r.raised # "none"
                  THEN /\ exc' = r.raised
                       /\ pc' = "except"
                       /\ log' = ImageRaised(log, r.raised)
                  ELSE /\ exc' = exc
                       /\ pc' = "placeholder"
                       /\ log' = log
               /\ UNCHANGED imageResult
    /\ UNCHANGED <<nreq, maxRetries, attempt, lastError, respData, raised,
                   result, httpStatus, envVars, textCalls>>
    /\ UNCHANGED fnVars

\* generate_image_with_imagen, line 191: return create_placeholder_response()
PlaceholderStep(s) ==
    /\ pc = "placeholder"
    /\ tried' = Append(tried, "placeholder")
    /\ LET r == CreatePlaceholderResponse(placeholderExists, s) IN
       /\ placeholderExists' = r.exists
       /\ IF r.raised # "none"
          THEN /\ exc' = r.raised
               /\ pc' = "except"
               /\ log' = ImageRaised(log, r.raised)
               /\ UNCHANGED imageResult
          ELSE /\ exc' = exc
               /\ pc' = "assemble"
               /\ imageResult' = r.url
               /\ log' = SetLast(log, "image", "placeholder")
    /\ UNCHANGED <<nreq, maxRetries, attempt, lastError, respData, raised,
                   result, httpStatus, envVars, store, primaryResp, textCalls>>
    /\ UNCHANGED fnVars

\* generate_post_with_image, lines 92-96, returned through
\* call_llm_with_retry line 111
AssembleResponse ==
    /\ pc = "assemble"
    /\ respData' = [respData EXCEPT !.imageUrl = imageResult]
    /\ result' = respData'
    /\ pc' = "returned"
    /\ UNCHANGED <<nreq, maxRetries, attempt, lastError, exc, imageResult,
                   raised, httpStatus, envVars, placeholderExists, store,
                   tried, primaryResp, textCalls, log>>
    /\ UNCHANGED fnVars

\* call_llm_with_retry, lines 113-130: the except clause and the loop step
HandleFailure ==
    /\ pc = "except"
    /\ lastError' = exc
    /\ log' = SetLast(SetLast(log, "sleep", BackoffFor(exc, attempt, maxRetries)),
                       "naps", Len(Sleeps(exc, attempt, maxRetries)))
    /\ attempt' = attempt + 1
    /\ pc' = IF InRange(attempt + 1, maxRetries) THEN "text" ELSE "exhausted"
    /\ exc' = "None"
    /\ UNCHANGED <<nreq, maxRetries, respData, imageResult, raised, result,
                   httpStatus, envVars, placeholderExists, store, tried,
                   primaryResp, textCalls>>
    /\ UNCHANGED fnVars

\* call_llm_with_retry, line 133
RaiseExhausted ==
    /\ pc = "exhausted"
    /\ raised' = WrapExhausted(lastError)
    /\ pc' = "raised"
    /\ UNCHANGED <<nreq, maxRetries, attempt, lastError, exc, respData,
                   imageResult, result, httpStatus, envVars,
                   placeholderExists, store, tried, primaryResp, textCalls, log>>
    /\ UNCHANGED fnVars

\* main.generate_post: which except clause answers an exception class
StatusFor(cls) ==
    IF cls = "ValueError" THEN 422
    ELSE IF cls = "RuntimeError" THEN 500
    ELSE 500

\* main.generate_post, lines 90-108
Respond ==
    /\ pc \in {"returned", "raised"}
    /\ httpStatus' = IF pc = "returned" THEN 200 ELSE StatusFor(raised.cls)
    /\ pc' = "responded"
    /\ UNCHANGED <<nreq, maxRetries, attempt, lastError, exc, respData,
                   imageResult, raised, result, envVars, placeholderExists,
                   store, tried, primaryResp, textCalls, log>>
    /\ UNCHANGED fnVars

Next ==
    \/ \E m \in 0..MaxRetriesBound : StartRequest(m)
    \/ RejectMalformed
    \/ \E gen \in GenOutcomes : TextStep(gen)
    \/ ImagenEntry
    \/ \E resp \in StabilityResponses, s1 \in SynthOutcomes, s2 \in SynthOutcomes :
          StabilityStep(resp, s1, s2)
    \/ \E s \in SynthOutcomes : PlaceholderStep(s)
    \/ AssembleResponse
    \/ HandleFailure
    \/ RaiseExhausted
    \/ Respond

Spec == Init /\ [][Next]_vars

pipelineVars == <<pc, nreq, maxRetries, attempt, lastError, exc, respData,
                  imageResult, raised, result, httpStatus, stabilityKey,
                  baseHasWord, placeholderExists, store, tried, primaryResp,
                  textCalls, log>>

\* ------------------------------------------------- the functions, applied

ApplyCleanStr(text) ==
    /\ fn = "none"
    /\ fn' = "clean_str"
    /\ fnArg' = text
    /\ fnRes' = CleanStr(text)
    /\ UNCHANGED pipelineVars

ApplyBuildPrompt(inp) ==
    /\ fn = "none"
    /\ fn' = "build_prompt"
    /\ fnArg' = inp
    /\ fnRes' = BuildPrompt(inp.brand, inp.posts)
    /\ UNCHANGED pipelineVars

ApplyOptimizeImagePrompt(caption, niche) ==
    /\ fn = "none"
    /\ fn' = "optimize_image_prompt"
    /\ fnArg' = [caption |-> caption, niche |-> niche]
    /\ fnRes' = OptimizeImagePrompt(caption, niche)
    /\ UNCHANGED pipelineVars

ApplyValidateAndFixJson(raw) ==
    /\ fn = "none"
    /\ fn' = "validate_and_fix_json"
    /\ fnArg' = raw
    /\ fnRes' = ValidateAndFixJson(raw)
    /\ UNCHANGED pipelineVars

NextFn ==
    \/ \E text \in Texts : ApplyCleanStr(text)
    \/ \E inp \in BuildInputs : ApplyBuildPrompt(inp)
    \/ \E caption \in Captions, niche \in Niches : ApplyOptimizeImagePrompt(caption, niche)
    \/ \E raw \in RawPayloads : ApplyValidateAndFixJson(raw)

SpecFn == Init /\ [][NextFn]_vars

TypeOK ==
    /\ pc \in {"idle", "text", "image", "stability", "placeholder", "assemble",
               "except", "exhausted", "returned", "raised", "responded"}
    /\ nreq \in 0..MaxRequests
    /\ maxRetries \in 0..(MaxRetriesBound + DefaultMaxRetries)
    /\ attempt \in 0..maxRetries
    /\ textCalls \in 0..maxRetries
    /\ Len(log) <= maxRetries
    /\ store \in [Keys -> {"absent", "png", "html"}]
    /\ httpStatus \in {0, 200, 422, 500}

\* ------------------------------------------------------------------ claims

Last == log[Len(log)]
\* the request was answered by the framework's validation, before the
\* handler body (and so the pipeline) ran
Rejected == pc = "responded" /\ raised.cls = "none" /\ result = NoResponse
AllTextFailed == \A i \in 1..Len(log) : log[i].text # "ok"

\* C1: with max_retries M >= 1 and a text provider that fails on every
\* call (whatever the failure), call_llm_with_retry calls the text
\* generator exactly M times, then raises one aggregated RuntimeError, and
\* returns nothing.
C1_ExactlyMCallsThenRaise ==
    (maxRetries >= 1 /\ AllTextFailed) =>
        /\ textCalls <= maxRetries
        /\ textCalls = Len(log)
        /\ pc \notin {"image", "stability", "placeholder", "assemble", "returned"}
        /\ result = NoResponse
        /\ (pc \in {"exhausted", "raised"} => textCalls = maxRetries)
        /\ (pc = "raised" => raised.cls = "RuntimeError")
        /\ ((pc = "responded" /\ ~Rejected) =>
               (textCalls = maxRetries /\ raised.cls = "RuntimeError"))
        /\ ((pc = "text" \/ pc = "except") => textCalls + (IF pc = "text" THEN 1 ELSE 0) <= maxRetries)

C1_Witness ==
    /\ pc = "raised"
    /\ maxRetries = 2
    /\ textCalls = 2
    /\ Len(log) = 2
    /\ log[1].text = "QuotaExceeded"
    /\ log[2].text = "SchemaMismatch"
    /\ raised.cls = "RuntimeError"

\* attempts 1..n-1 failed in the text call with a quota signal and the
\* text step of attempt n succeeded
QuotaThenOk(n) ==
    /\ n \in 1..Len(log)
    /\ n <= maxRetries
    /\ \A i \in 1..(n - 1) : log[i].text = "QuotaExceeded"
    /\ log[n].text = "ok"

\* C2: when the text provider fails with a quota signal on attempts
\* 1..N-1 and succeeds on attempt N <= max_retries, the pipeline returns
\* success and the text generator has been called exactly N times.
C2_QuotaThenSuccess ==
    \A n \in 1..Len(log) :
        QuotaThenOk(n) =>
            /\ textCalls = n
            /\ pc \notin {"text", "except", "exhausted", "raised"}
            /\ (pc = "responded" => httpStatus = 200)

\* C3: the backoff slept after an attempt whose text call failed with a
\* quota / rate-limit signal is one fixed interval, strictly longer than
\* the interval slept after any other failure, whatever the attempt index.
C3_QuotaBackoffLonger ==
    \A i \in 1..Len(log) :
        (log[i].text = "QuotaExceeded" /\ log[i].sleep > 0) =>
            /\ log[i].sleep > GenericWait
            /\ \A j \in 1..Len(log) :
                  (log[j].sleep > 0 /\ log[j].text = "QuotaExceeded")
                      => log[j].sleep = log[i].sleep

FailedResponses == {"200_nonimage", "non200", "timeout", "exception"}

\* C4: when the text step of an attempt succeeded and the configured image
\* provider failed (non-2xx, timeout, exception or non-image content), the
\* pipeline returns success with all three variants and with imageUrl the
\* fixed placeholder reference.
C4_PlaceholderOnProviderFailure ==
    (Len(log) > 0 /\ Last.text = "ok" /\ primaryResp \in FailedResponses) =>
        /\ pc \notin {"text", "except", "exhausted", "raised"}
        /\ (pc = "assemble" => imageResult = "placeholder")
        /\ (pc = "returned" =>
               /\ result.imageUrl = "placeholder"
               /\ result.text = "ok" /\ result.image = "ok" /\ result.video = "ok")
        /\ (pc = "responded" => (httpStatus = 200 /\ result.imageUrl = "placeholder"))

\* C5: generate_image_with_imagen never raises and always hands back a
\* non-null imageUrl, also when placeholder synthesis fails.
C5_ChainNeverRaises ==
    /\ \A i \in 1..Len(log) : log[i].image # "raised"
    /\ (pc = "assemble" => imageResult # "null")

\* C6: once the text step of an attempt has succeeded, the text provider
\* is not called again in that request, whatever the image step does.
C6_NoRetryAfterTextSuccess ==
    \A i \in 1..Len(log) : log[i].text = "ok" => textCalls = i

\* C7: a 200 answer of the primary provider whose body is not an image is a
\* failure: the body is not stored under the image key and the generated
\* reference is not returned for it.
C7_NonImageIsFailure ==
    /\ \A k \in Keys : store[k] # "html"
    /\ (primaryResp = "200_nonimage" => imageResult # "generated")

\* C8: the failure raised after the last attempt carries the error that
\* made that attempt fail, and the endpoint answers it with status 500.
C8_CarriesUnderlyingError ==
    /\ (pc = "raised" /\ Len(log) > 0) => raised.carries = Last.cause
    /\ (pc = "responded" /\ raised.cls # "none") => httpStatus = 500

\* C9: a success carries text, image and video, each schema-valid; an
\* attempt whose payload lacks a sub-object or has one of the wrong shape
\* does not get past the text step.
C9_AllThreeOnSuccess ==
    /\ (pc \in {"image", "stability", "placeholder", "assemble"} =>
           (respData.text = "ok" /\ respData.image = "ok" /\ respData.video = "ok"))
    /\ ((pc = "returned" \/ (pc = "responded" /\ httpStatus = 200)) =>
           /\ result.text = "ok"
           /\ result.image = "ok"
           /\ result.video = "ok"
           /\ Last.text = "ok")
    /\ \A i \in 1..Len(log) :
           log[i].text \in {"SchemaMismatch", "UnrepairableOutput"}
               => ~(i = Len(log) /\ pc \in {"image", "stability", "placeholder",
                                            "assemble", "returned"})

C9_Witness ==
    /\ pc = "returned"
    /\ Len(log) = 2
    /\ log[1].text = "SchemaMismatch"
    /\ log[2].text = "ok"
    /\ result.text = "ok" /\ result.image = "ok" /\ result.video = "ok"
    /\ result.imageUrl # "null"

\* C10: the chain tries primary, then secondary, then placeholder: the
\* placeholder strategy runs only after the secondary provider was tried.
C10_SecondaryBeforePlaceholder ==
    \A j \in 1..Len(tried) :
        tried[j] = "placeholder" => \E k \in 1..(j - 1) : tried[k] = "secondary"

\* a step in which generate_image_with_stability wrote the response body
\* to generated_images/image_<key>.png
StoreWrite ==
    /\ pc = "stability"
    /\ Len(log') = Len(log)
    /\ ~log[Len(log)].wrote
    /\ log'[Len(log')].wrote

\* C13: the image store is append-only and written at most once per
\* prompt: a generation for a prompt whose hash-keyed file already exists
\* writes nothing, and the content under a key never changes once written.
C13_StoreWrittenOnce ==
    [][ /\ \A k \in Keys : store[k] # "absent" => store'[k] = store[k]
        /\ StoreWrite => store[PromptHash(respData.imagePrompt)] = "absent" ]_vars

\* C16: a client-error status answers only a malformed request, for which
\* the pipeline was never entered; every failure of an entered pipeline is
\* answered by one server-error status; 200 comes only with the pipeline's
\* result.
C16_StatusClasses ==
    pc = "responded" =>
        /\ httpStatus \in {200, 422, 500}
        /\ (httpStatus \in 400..499 =>
               (Rejected /\ textCalls = 0 /\ log = <<>> /\ tried = <<>>))
        /\ (raised.cls # "none" => httpStatus \in 500..599)
        /\ (httpStatus = 200 =>
               (raised.cls = "none" /\ result # NoResponse /\ result = respData))

C16_Witness ==
    /\ pc = "responded"
    /\ httpStatus = 500
    /\ Len(log) = 2
    /\ log[1].text = "UnrepairableOutput"
    /\ log[2].cause = "PlaceholderError"
    /\ raised.cls = "RuntimeError"

\* C17: in every attempt the image chain is entered at most once and only
\* after the text call, the repair and the schema validation of that
\* attempt succeeded; an attempt whose text step failed calls no image
\* provider and writes nothing to the image store.
C17_ImageAfterText ==
    /\ \A i \in 1..Len(log) :
          /\ log[i].chains <= 1
          /\ (log[i].text # "ok" =>
                 (log[i].chains = 0 /\ ~log[i].wrote /\ log[i].image = "none"))
          /\ ((log[i].wrote \/ log[i].image # "none") => log[i].chains = 1)
    /\ (pc \in {"image", "stability", "placeholder", "assemble"} =>
           (Len(log) > 0 /\ Last.text = "ok" /\ textCalls = Len(log)))
    /\ (pc \in {"stability", "placeholder", "assemble"} => Last.chains = 1)
    /\ ((tried # <<>> \/ primaryResp # "none") =>
           (Len(log) > 0 /\ Last.text = "ok" /\ Last.chains = 1))

C17_Witness ==
    /\ pc = "assemble"
    /\ Len(log) = 2
    /\ log[1].text = "SchemaMismatch"
    /\ log[1].chains = 0
    /\ log[2].text = "ok"
    /\ log[2].chains = 1
    /\ log[2].wrote
    /\ tried = <<"primary">>

RECURSIVE NapsUpTo(_)
NapsUpTo(n) == IF n = 0 THEN 0 ELSE NapsUpTo(n - 1) + log[n].naps

\* the loop of call_llm_with_retry has ended in failure
LoopFailed == pc \in {"exhausted", "raised"} \/ (pc = "responded" /\ raised.cls # "none")

\* C18: exactly one sleep separates two consecutive attempts, and none
\* follows the final or a successful attempt: k attempts, k-1 sleeps.
C18_OneSleepBetweenAttempts ==
    /\ \A i \in 1..(Len(log) - 1) : log[i].naps = 1
    /\ \A i \in 1..Len(log) :
          log[i].image \in {"generated", "placeholder"} => log[i].naps = 0
    /\ ((pc = "text" /\ Len(log) > 0) => Last.naps = 1)
    /\ ((LoopFailed /\ Len(log) > 0) =>
           (Last.naps = 0 /\ NapsUpTo(Len(log)) = Len(log) - 1))
    /\ (pc = "returned" => NapsUpTo(Len(log)) = Len(log) - 1)

C18_Witness ==
    /\ pc = "raised"
    /\ Len(log) = 2
    /\ log[1].cause = "PlaceholderQuotaError"
    /\ log[1].naps = 1
    /\ log[1].sleep = 1
    /\ log[2].naps = 0

\* C19: when the primary provider answered with an image that was saved,
\* the chain returns the generated reference and not the placeholder,
\* whatever BASE_URL is.
C19_GeneratedReferenceReturned ==
    primaryResp = "200_image" =>
        /\ pc \notin {"placeholder", "except", "exhausted", "raised"}
        /\ (pc = "assemble" => imageResult = "generated")
        /\ (pc = "returned" => result.imageUrl = "generated")

\* C11: the caption part of the prompt optimize_image_prompt returns is at
\* most 200 characters long and holds no newline.
C11_CaptionBoundedAndClean ==
    fn = "optimize_image_prompt" =>
        LET part == CaptionPortion(fnRes, fnArg.niche) IN
        /\ Len(part) <= 200
        /\ \A i \in 1..Len(part) : part[i] # "\n"

\* the payloads C12 speaks of: strict parsing fails (the empty payload
\* included) and repair fails or gives an empty or non-object value
Irrecoverable(raw) ==
    /\ raw.strict.kind = "fail"
    /\ (raw.repair.kind = "fail" \/ raw.repair.empty \/ raw.repair.kind # "obj")

\* C12: for an empty or irrecoverably malformed payload
\* validate_and_fix_json raises; it returns no value for it.
C12_IrrecoverableRaises ==
    (fn = "validate_and_fix_json" /\ Irrecoverable(fnArg)) => ~fnRes.ok

\* C14: the few-shot block holds min(len, 5) entries, never more than 5,
\* and they are the first posts of the input, in input order.
C14_FewShotAtMostFiveInOrder ==
    fn = "build_prompt" =>
        /\ Len(fnRes.examples) = Min(Len(fnArg.posts), 5)
        /\ Len(fnRes.examples) <= 5
        /\ \A i \in 1..Len(fnRes.examples) :
              /\ fnRes.examples[i].num = i
              /\ fnRes.examples[i] = Example(i, fnArg.posts[i])

C14_Witness ==
    /\ fn = "build_prompt"
    /\ Len(fnArg.posts) = 6
    /\ Len(fnRes.examples) = 5
    /\ fnArg.posts[1] # fnArg.posts[6]
    /\ fnArg.posts[1] # fnArg.posts[2]

\* no newline, no double quote, no white space at either end
Sanitized(text) ==
    /\ \A i \in 1..Len(text) : text[i] # "\n" /\ text[i] # "\""
    /\ (text # <<>> => (~IsSpace(text[1]) /\ ~IsSpace(text[Len(text)])))

\* C15: every free-text value build_prompt embeds is sanitized, and the
\* content of a past post contributes at most 150 characters.
C15_EmbeddedTextSanitized ==
    /\ (fn = "clean_str" => Sanitized(fnRes))
    /\ (fn = "build_prompt" =>
           /\ Sanitized(fnRes.niche)
           /\ Sanitized(fnRes.audience)
           /\ Sanitized(fnRes.tone)
           /\ Sanitized(fnRes.style)
           /\ Sanitized(fnRes.emotional)
           /\ \A j \in 1..Len(fnRes.phrases) : Sanitized(fnRes.phrases[j])
           /\ \A i \in 1..Len(fnRes.examples) :
                 /\ Sanitized(fnRes.examples[i].tone)
                 /\ Sanitized(fnRes.examples[i].cta)
                 /\ Sanitized(fnRes.examples[i].content)
                 /\ Len(fnRes.examples[i].content) <= 150)

C15_Witness ==
    /\ fn = "build_prompt"
    /\ Len(fnArg.posts) = 1
    /\ Len(fnArg.posts[1].content) > 150
    /\ fnArg.posts[1].content[150] = "\n"
    /\ fnArg.posts[1].content[151] = "\""
    /\ fnArg.brand.niche = <<" ", "\n", "\"">>
    /\ fnRes.niche = <<"'">>
    /\ fnRes.examples[1].content = Pad(148)

====
